---- MODULE Spec2Model ----
(***************************************************************************)
(* Model of src/src/lib.rs: the fixed-dimension f32 vectors Vec2, Vec3 and *)
(* Vec4 generated by the vectors! macro, with their scalar arithmetic,     *)
(* normalisation, dot and cross products and angle cosine / sine.          *)
(*                                                                         *)
(* An f32 is modelled by its IEEE-754 binary32 fields <<sign, exponent,    *)
(* fraction>> and the arithmetic is computed bit-exactly (round to nearest,*)
(* ties to even, subnormals, infinities, NaN), so that rounding, overflow  *)
(* and underflow are what the program produces.  NaN payloads are not part *)
(* of the value: every NaN is the one quiet NaN.                           *)
(***************************************************************************)
EXTENDS Integers, Sequences, FiniteSets

----------------------------------------------------------------------------
(* f32: the binary32 format *)

\* width of the fraction field
FracBits == 23
\* exponent bias
Bias == 127
\* the all-ones exponent field (infinities and NaN)
ExpMax == 255

\* the powers of two an i32 holds
Pow2Table ==
    << 1, 2, 4, 8, 16, 32, 64, 128, 256, 512, 1024, 2048, 4096, 8192, 16384,
       32768, 65536, 131072, 262144, 524288, 1048576, 2097152, 4194304,
       8388608, 16777216, 33554432, 67108864, 134217728, 268435456,
       536870912, 1073741824 >>

\* 2^n, 0 <= n <= 30
Pow2(n) == Pow2Table[n + 1]

\* number of significant bits of n, 0 <= n < 2^31
BitLen(n) == Cardinality({i \in 1..Len(Pow2Table) : Pow2Table[i] <= n})

Hidden == Pow2(FracBits)
\* exponent of the unit in the last place of a subnormal: value = m * 2^MinExp
MinExp == 1 - Bias - FracBits

F32(s, e, m) == <<s, e, m>>
\* every f32
F32Set == {0, 1} \X (0..ExpMax) \X (0..(Hidden - 1))
Sign(x) == x[1]
Exp(x) == x[2]
Frac(x) == x[3]

NaN == F32(0, ExpMax, Pow2(FracBits - 1))
Inf(s) == F32(s, ExpMax, 0)
Zero(s) == F32(s, 0, 0)
PosZero == Zero(0)
NegZero == Zero(1)

IsNaN(x) == Exp(x) = ExpMax /\ Frac(x) # 0
IsInf(x) == Exp(x) = ExpMax /\ Frac(x) = 0
IsZero(x) == Exp(x) = 0 /\ Frac(x) = 0
IsFinite(x) == Exp(x) # ExpMax

\* a finite x is Mant(x) * 2^Expo(x), negated when Sign(x) = 1
Mant(x) == IF Exp(x) = 0 THEN Frac(x) ELSE Hidden + Frac(x)
Expo(x) == IF Exp(x) = 0 THEN MinExp ELSE Exp(x) - Bias - FracBits

\* 12-bit limbs of a significand, and the 24-bit half of a product
Limb == Pow2(12)
Limb2 == Limb * Limb

\* a significand of 24 bits and an exponent in range: the normal f32, or an
\* infinity when the exponent overflows
PackNormal(s, q, e) ==
    IF e + Bias + FracBits >= ExpMax THEN Inf(s)
    ELSE F32(s, e + Bias + FracBits, q - Hidden)

\* the f32 of significand q <= 2^24 at exponent e (e = MinExp when q < 2^23)
Pack(s, q, e) ==
    IF q = 0 THEN Zero(s)
    ELSE IF q < Hidden THEN F32(s, 0, q)
    ELSE IF q = 2 * Hidden THEN PackNormal(s, Hidden, e + 1)
    ELSE PackNormal(s, q, e)

\* round to nearest, ties to even: q is the kept part, r the dropped part
RoundUp(s, q, r, half, sticky, e) ==
    Pack(s,
         IF r > half \/ (r = half /\ (sticky \/ q % 2 = 1)) THEN q + 1 ELSE q,
         e)

RoundDiv(s, m, p, sticky, e) == RoundUp(s, m \div p, m % p, p \div 2, sticky, e)

RoundShift(s, m, e, sticky, shift) ==
    IF shift <= 0 THEN Pack(s, m * Pow2(-shift), e + shift)
    ELSE IF shift > 30 THEN Zero(s)
    ELSE RoundDiv(s, m, Pow2(shift), sticky, e + shift)

\* bits to drop from a significand of n bits at exponent e: down to 24 bits,
\* and more where the result is subnormal
DropBits(n, e) ==
    IF n - (FracBits + 1) > MinExp - e THEN n - (FracBits + 1) ELSE MinExp - e

\* The f32 nearest (ties to even) to (-1)^s * (m + t) * 2^e, where m < 2^30
\* and 0 < t < 1 when sticky, t = 0 otherwise.  A sticky m has at least 26 bits.
RoundPack(s, m, e, sticky) == RoundShift(s, m, e, sticky, DropBits(BitLen(m), e))

\* an integer literal of the source (3.0, 4.0, ...), exactly representable
Lit(n) == IF n < 0 THEN RoundPack(1, -n, 0, FALSE) ELSE RoundPack(0, n, 0, FALSE)
One == Lit(1)

FNeg(x) == IF IsNaN(x) THEN NaN ELSE F32(1 - Sign(x), Exp(x), Frac(x))

\* f32 == : NaN equals nothing, +0.0 equals -0.0
FEq(x, y) ==
    /\ ~IsNaN(x)
    /\ ~IsNaN(y)
    /\ \/ x = y
       \/ IsZero(x) /\ IsZero(y)

\* f32 !=
FNe(x, y) == ~FEq(x, y)

\* the product hi * 2^24 + lo of two significands, rounded: the low bits
\* beyond 29 significant ones are dropped into the sticky flag
MulRound(s, hi, lo, e, drop) ==
    RoundPack(s, hi * Pow2(24 - drop) + lo \div Pow2(drop), e + drop,
              lo % Pow2(drop) # 0)

MulDrop(s, hi, lo, e) ==
    MulRound(s, hi, lo, e, IF BitLen(hi) > 5 THEN BitLen(hi) - 5 ELSE 0)

MulHiLo(s, h, low, e) == MulDrop(s, h + low \div Limb2, low % Limb2, e)

MulSum(s, hh, mid, ll, e) ==
    MulHiLo(s, hh + mid \div Limb, ll + (mid % Limb) * Limb, e)

MulLimbs(s, a1, a0, b1, b0, e) ==
    MulSum(s, a1 * b1, a1 * b0 + a0 * b1, a0 * b0, e)

MulFinite(s, a, b, e) ==
    MulLimbs(s, a \div Limb, a % Limb, b \div Limb, b % Limb, e)

\* f32 * : the 48-bit product of the two significands, in 12-bit limbs
MulF32[x \in F32Set, y \in F32Set] ==
    LET s == (Sign(x) + Sign(y)) % 2
    IN  IF IsNaN(x) \/ IsNaN(y) THEN NaN
        ELSE IF IsInf(x) \/ IsInf(y)
             THEN IF IsZero(x) \/ IsZero(y) THEN NaN ELSE Inf(s)
        ELSE IF IsZero(x) \/ IsZero(y) THEN Zero(s)
        ELSE MulFinite(s, Mant(x), Mant(y), Expo(x) + Expo(y))

FMul(x, y) == MulF32[x, y]

\* sp*mp + sq*mq at exponent e, exact in 30 bits
AddExact(sp, mp, sq, mq, e) ==
    IF sp # sq /\ mp = mq THEN PosZero
    ELSE RoundPack(IF sp = sq \/ mp > mq THEN sp ELSE sq,
                   IF sp = sq THEN mp + mq
                   ELSE IF mp > mq THEN mp - mq ELSE mq - mp,
                   e, FALSE)

\* sp*mp + sq*(mq + t) at exponent e with mp > mq + 1, 0 < t < 1 when st
AddSticky(sp, mp, sq, mq, st, e) ==
    RoundPack(sp,
              IF sp = sq THEN mp + mq ELSE IF st THEN mp - mq - 1 ELSE mp - mq,
              e, st)

AddShifted(p, q, pw) ==
    AddSticky(Sign(p), Mant(p) * Pow2(5), Sign(q), Mant(q) \div pw,
              Mant(q) % pw # 0, Expo(p) - 5)

\* p + q where the exponent of p is that of q plus d, d >= 0
AddAligned(p, q, d) ==
    IF d <= 5
    THEN AddExact(Sign(p), Mant(p) * Pow2(d), Sign(q), Mant(q), Expo(q))
    ELSE IF d - 5 > FracBits + 1
    THEN AddSticky(Sign(p), Mant(p) * Pow2(5), Sign(q), 0, TRUE, Expo(p) - 5)
    ELSE AddShifted(p, q, Pow2(d - 5))

\* f32 +
AddF32[x \in F32Set, y \in F32Set] ==
    IF IsNaN(x) \/ IsNaN(y) THEN NaN
    ELSE IF IsInf(x) THEN (IF IsInf(y) /\ Sign(x) # Sign(y) THEN NaN ELSE x)
    ELSE IF IsInf(y) THEN y
    ELSE IF IsZero(x) /\ IsZero(y)
         THEN (IF Sign(x) = 1 /\ Sign(y) = 1 THEN NegZero ELSE PosZero)
    ELSE IF IsZero(x) THEN y
    ELSE IF IsZero(y) THEN x
    ELSE IF Expo(x) < Expo(y) THEN AddAligned(y, x, Expo(y) - Expo(x))
    ELSE AddAligned(x, y, Expo(x) - Expo(y))

FAdd(x, y) == AddF32[x, y]

\* f32 -
FSub(x, y) == FAdd(x, FNeg(y))

\* the significand of a finite non-zero f32 shifted to 24 bits, and its exponent
NormMant(x) == Mant(x) * Pow2(FracBits + 1 - BitLen(Mant(x)))
NormExpo(x) == Expo(x) - (FracBits + 1 - BitLen(Mant(x)))

\* n more quotient bits of qr[2] / d by long division, n <= 7:
\* <<quotient, remainder>>
DivChunk(qr, d, n) ==
    << qr[1] * Pow2(n) + (qr[2] * Pow2(n)) \div d, (qr[2] * Pow2(n)) % d >>

\* 27 more quotient bits
DivBits(qr, d) == DivChunk(DivChunk(DivChunk(DivChunk(qr, d, 7), d, 7), d, 7), d, 6)

DivRound(s, qr, e) == RoundPack(s, qr[1], e, qr[2] # 0)

\* a / b for 24-bit significands: 27 quotient bits after the leading one
DivFinite(s, a, b, e) == DivRound(s, DivBits(<<a \div b, a % b>>, b), e - 27)

\* f32 /
DivF32[x \in F32Set, y \in F32Set] ==
    LET s == (Sign(x) + Sign(y)) % 2
    IN  IF IsNaN(x) \/ IsNaN(y) THEN NaN
        ELSE IF IsInf(x) THEN (IF IsInf(y) THEN NaN ELSE Inf(s))
        ELSE IF IsInf(y) THEN Zero(s)
        ELSE IF IsZero(y) THEN (IF IsZero(x) THEN NaN ELSE Inf(s))
        ELSE IF IsZero(x) THEN Zero(s)
        ELSE DivFinite(s, NormMant(x), NormMant(y), NormExpo(x) - NormExpo(y))

FDiv(x, y) == DivF32[x, y]

\* one more root bit: the remainder rem against the trial 4 * root + 1
SqrtDigit(root, rem) ==
    IF rem >= 4 * root + 1 THEN <<2 * root + 1, rem - (4 * root + 1)>>
    ELSE <<2 * root, rem>>

SqrtStep(p, digit) == SqrtDigit(p[1], 4 * p[2] + digit)

\* integer square root of m by base-4 digits: <<root, remainder>>
SqrtRem[m \in Nat] ==
    IF m = 0 THEN <<0, 0>> ELSE SqrtStep(SqrtRem[m \div 4], m % 4)

\* n more root bits (the radicand continued with zero digits)
SqrtBits[p \in Nat \X Nat, n \in Nat] ==
    IF n = 0 THEN p ELSE SqrtBits[SqrtStep(p, 0), n - 1]

SqrtRound(rr, e) == RoundPack(0, rr[1], e, rr[2] # 0)

\* the root of m * 2^e, e even, m of 24 or 25 bits: 14 bits past the integer root
SqrtEven(m, e) == SqrtRound(SqrtBits[SqrtRem[m], 14], e \div 2 - 14)

\* f32::sqrt
SqrtF32[x \in F32Set] ==
    IF IsNaN(x) THEN NaN
    ELSE IF IsZero(x) THEN x
    ELSE IF Sign(x) = 1 THEN NaN
    ELSE IF IsInf(x) THEN x
    ELSE IF NormExpo(x) % 2 = 1 THEN SqrtEven(2 * NormMant(x), NormExpo(x) - 1)
    ELSE SqrtEven(NormMant(x), NormExpo(x))

FSqrt(x) == SqrtF32[x]

----------------------------------------------------------------------------
(* $Vec([f32; $dim]): a vector is the sequence of its $dim components.      *)
(* The source indexes from 0, a sequence from 1: component index is v[index + 1]. *)

Dims == {2, 3, 4}

ZeroMagnitudeMsg == "Magnitude of one of the vectors is zero"

\* pub fn $axis(&self) -> f32
axis(v, index) == v[index + 1]

\* pub fn new() -> Self
new(dim) == [i \in 1..dim |-> PosZero]

\* mutant: the 1.0 is stored at the next axis
axis_fn_next_axis(dim, index) ==
    [new(dim) EXCEPT ![((index + 1) % dim) + 1] = One]

\* pub fn $axis_fn() -> Self
axis_fn(dim, index) == [new(dim) EXCEPT ![index + 1] = One]

\* the axes the macro invocations give a vector of dimension dim: x => 0, y => 1, ...
Axes(dim) == 0..(dim - 1)

scalar_mult(v, scale) == [i \in 1..Len(v) |-> FMul(v[i], scale)]

scalar_add(v, num) == [i \in 1..Len(v) |-> FAdd(v[i], num)]

\* mutant: a guard that leaves the vector alone when the divisor is zero
scalar_div_guarded(v, scale) ==
    IF IsZero(scale) THEN v ELSE [i \in 1..Len(v) |-> FDiv(v[i], scale)]

scalar_div(v, scale) == [i \in 1..Len(v) |-> FDiv(v[i], scale)]

scalar_sub(v, num) == [i \in 1..Len(v) |-> FSub(v[i], num)]

\* Iterator::sum of the products, folded from the left starting at zero0: the
\* f32 Sum starts at 0.0 or at -0.0 depending on the toolchain's std
RECURSIVE SumProducts(_, _, _, _)
SumProducts(v, other, n, zero0) ==
    IF n = 0 THEN zero0
    ELSE FAdd(SumProducts(v, other, n - 1, zero0), FMul(v[n], other[n]))

SumZeros == {PosZero, NegZero}

\* pub fn dot(&self, other: &Self) -> f32
dot(v, other, zero0) == SumProducts(v, other, Len(v), zero0)

\* fold(0.0, |sum, val| sum + val * val)
RECURSIVE SumSquares(_, _)
SumSquares(v, n) ==
    IF n = 0 THEN PosZero
    ELSE FAdd(SumSquares(v, n - 1), FMul(v[n], v[n]))

\* mutant: the square root is forgotten
magnitude_no_sqrt(v) == SumSquares(v, Len(v))

\* pub fn magnitude(&self) -> f32
magnitude(v) == FSqrt(SumSquares(v, Len(v)))

\* mutant: the zero check is left out
normalise_unguarded(v) == scalar_mult(v, FDiv(One, magnitude(v)))

\* mutant: the zero check is inverted
normalise_inverted(v) ==
    IF FNe(magnitude(v), PosZero) THEN new(Len(v))
    ELSE scalar_mult(v, FDiv(One, magnitude(v)))

\* pub fn normalise(&self) -> Self
normalise(v) ==
    LET mag == magnitude(v)
    IN  IF FEq(mag, PosZero) THEN new(Len(v))
        ELSE scalar_mult(v, FDiv(One, mag))

\* what a call produces: a vector, a number, or the panic of a failed assert!
None == <<>>
RetVec(v) == [kind |-> "vec", vec |-> v, num |-> None, msg |-> ""]
RetNum(x) == [kind |-> "num", vec |-> None, num |-> x, msg |-> ""]
Panic(m) == [kind |-> "panic", vec |-> None, num |-> None, msg |-> m]
NoResult == [kind |-> "none", vec |-> None, num |-> None, msg |-> ""]

\* mutant: only the receiver's magnitude is asserted
MagnitudesNonZero_self_only(v, other) == FNe(magnitude(v), PosZero)

\* assert!(self.magnitude() != 0.0 && other.magnitude() != 0.0, ...)
MagnitudesNonZero(v, other) ==
    FNe(magnitude(v), PosZero) /\ FNe(magnitude(other), PosZero)

\* pub fn cos(&self, other: &Self) -> f32
cos(v, other, zero0) ==
    IF ~MagnitudesNonZero(v, other) THEN Panic(ZeroMagnitudeMsg)
    ELSE RetNum(FDiv(dot(v, other, zero0), FMul(magnitude(v), magnitude(other))))

\* impl Mul<f32> for $Vec
mul(v, scale) == scalar_mult(v, scale)

\* mutant: the scalar-on-the-left form calls the wrong helper
f32_mul_adds(scale, vector) == scalar_add(vector, scale)

\* impl Mul<$Vec> for f32
f32_mul(scale, vector) == scalar_mult(vector, scale)

\* impl Add<f32> for $Vec
add(v, num) == scalar_add(v, num)

\* impl Add<$Vec> for f32
f32_add(num, vector) == scalar_add(vector, num)

\* impl Div<f32> for $Vec
div(v, num) == scalar_div(v, num)

\* impl Sub<f32> for $Vec
sub(v, num) == scalar_sub(v, num)

\* mutant: the operands of the second component's subtraction are exchanged
cross_y_swapped(v, other) ==
    << FSub(FMul(v[2], other[3]), FMul(v[3], other[2])),
       FSub(FMul(v[1], other[3]), FMul(other[1], v[3])),
       FSub(FMul(v[1], other[2]), FMul(other[1], v[2])) >>

\* mutant: the first component adds its two products
cross_x_added(v, other) ==
    << FAdd(FMul(v[2], other[3]), FMul(v[3], other[2])),
       FSub(FMul(other[1], v[3]), FMul(v[1], other[3])),
       FSub(FMul(v[1], other[2]), FMul(other[1], v[2])) >>

\* Vec3::cross
cross(v, other) ==
    << FSub(FMul(v[2], other[3]), FMul(v[3], other[2])),
       FSub(FMul(other[1], v[3]), FMul(v[1], other[3])),
       FSub(FMul(v[1], other[2]), FMul(other[1], v[2])) >>

\* Vec3::sin
sin(v, other) ==
    IF ~MagnitudesNonZero(v, other) THEN Panic(ZeroMagnitudeMsg)
    ELSE RetNum(FDiv(magnitude(cross(v, other)),
                     FMul(magnitude(v), magnitude(other))))

\* #[derive(PartialEq)] on $Vec: component-wise f32 ==
VecEq(v, w) == Len(v) = Len(w) /\ \A i \in 1..Len(v) : FEq(v[i], w[i])

----------------------------------------------------------------------------
(* The inputs: components and scalars are drawn from a ring of f32 values   *)
(* holding the literals of the test suite, an inexact fraction, values      *)
(* whose squares overflow and underflow, both zeros, an infinity and NaN.   *)
(* A vector is a window of the ring read with a stride.                     *)

\* number of ring values in use
NumVals == 11
\* largest stride, forwards or backwards, of a window
MaxStride == 1

\* 0.1f32 = 0x3DCCCCCD
Tenth == F32(0, 123, 5033165)
\* 2^100 and 2^-100
Huge == F32(0, Bias + 100, 0)
Tiny == F32(0, Bias - 100, 0)

Ring ==
    << PosZero, One, Lit(2), Lit(3), Lit(4), Lit(-3), Tenth, Huge, Tiny, Inf(0),
       NaN, NegZero, Inf(1), Lit(7) >>

Val(i) == Ring[((i - 1) % NumVals) + 1]
Vals == {Val(i) : i \in 1..NumVals}

Window(dim, start, stride) ==
    [i \in 1..dim |-> Val(start + NumVals + (i - 1) * stride)]

Vecs(dim) ==
    {Window(dim, s, t) : s \in 1..NumVals, t \in (-MaxStride)..MaxStride}

----------------------------------------------------------------------------
(* The state: a vector self of dimension dim, then one call on it.          *)

VARIABLES dim, self, op, scalar, other, index, out

vars == <<dim, self, op, scalar, other, index, out>>

Init ==
    /\ dim \in Dims
    /\ self \in Vecs(dim)
    /\ op = "none"
    /\ scalar = None
    /\ other = None
    /\ index = -1
    /\ out = NoResult

Call(name, k, o, i, result) ==
    /\ op = "none"
    /\ op' = name
    /\ scalar' = k
    /\ other' = o
    /\ index' = i
    /\ out' = result
    /\ UNCHANGED <<dim, self>>

Axis == \E i \in Axes(dim) : Call("axis", None, None, i, RetNum(axis(self, i)))

AxisFn == \E i \in Axes(dim) : Call("axis_fn", None, None, i, RetVec(axis_fn(dim, i)))

New == Call("new", None, None, -1, RetVec(new(dim)))

Normalise == Call("normalise", None, None, -1, RetVec(normalise(self)))

Magnitude == Call("magnitude", None, None, -1, RetNum(magnitude(self)))

Mul == \E k \in Vals : Call("mul", k, None, -1, RetVec(mul(self, k)))

F32Mul == \E k \in Vals : Call("f32_mul", k, None, -1, RetVec(f32_mul(k, self)))

Add == \E k \in Vals : Call("add", k, None, -1, RetVec(add(self, k)))

F32Add == \E k \in Vals : Call("f32_add", k, None, -1, RetVec(f32_add(k, self)))

Div == \E k \in Vals : Call("div", k, None, -1, RetVec(div(self, k)))

Sub == \E k \in Vals : Call("sub", k, None, -1, RetVec(sub(self, k)))

Dot ==
    \E o \in Vecs(dim), z \in SumZeros :
        Call("dot", None, o, -1, RetNum(dot(self, o, z)))

Cos ==
    \E o \in Vecs(dim), z \in SumZeros :
        Call("cos", None, o, -1, cos(self, o, z))

Cross ==
    /\ dim = 3
    /\ \E o \in Vecs(dim) : Call("cross", None, o, -1, RetVec(cross(self, o)))

Sin ==
    /\ dim = 3
    /\ \E o \in Vecs(dim) : Call("sin", None, o, -1, sin(self, o))

Next ==
    \/ Axis
    \/ AxisFn
    \/ New
    \/ Normalise
    \/ Magnitude
    \/ Mul
    \/ F32Mul
    \/ Add
    \/ F32Add
    \/ Div
    \/ Sub
    \/ Dot
    \/ Cos
    \/ Cross
    \/ Sin

Spec == Init /\ [][Next]_vars

----------------------------------------------------------------------------
(* The claims *)

\* the vector of the integer literals s
Vec(s) == [i \in 1..Len(s) |-> Lit(s[i])]

\* 0.6f32 = 0x3F19999A and 0.8f32 = 0x3F4CCCCD
SixTenths == F32(0, 126, 1677722)
EightTenths == F32(0, 126, 5033165)

HasNaN(v) == \E i \in 1..Len(v) : IsNaN(v[i])
AllZero(v) == \A i \in 1..Len(v) : IsZero(v[i])

\* the integers whose products and sums in cross and dot are exact in f32
SmallInts == {Lit(n) : n \in (-128)..128}
AllSmallInts(v) == \A i \in 1..Len(v) : v[i] \in SmallInts

AllFinite(v) == \A i \in 1..Len(v) : IsFinite(v[i])
\* finite components of absolute value below 8: nothing overflows
AllModest(v) == \A i \in 1..Len(v) : IsFinite(v[i]) /\ Exp(v[i]) <= Bias + 2

\* C1: cos (every dimension) and sin (dimension 3) panic with the message
\* "Magnitude of one of the vectors is zero" whenever the receiver or the
\* argument has magnitude 0, and then return no value.
C1_ZeroMagnitudePanics ==
    (/\ op \in {"cos", "sin"}
     /\ \/ FEq(magnitude(self), PosZero)
        \/ FEq(magnitude(other), PosZero))
    => /\ out.kind = "panic"
       /\ out.msg = "Magnitude of one of the vectors is zero"
       /\ out.num = None

\* cos panicked because its argument, not its receiver, has magnitude 0
C1_Witness ==
    /\ op = "cos"
    /\ FNe(magnitude(self), PosZero)
    /\ FEq(magnitude(other), PosZero)
    /\ out.kind = "panic"

\* C2: normalise() of the all-zero vector returns the all-zero vector of the
\* same dimension; it does not fail and no division by the magnitude shows.
C2_NormaliseZero ==
    (op = "normalise" /\ AllZero(self))
    => /\ out.kind = "vec"
       /\ Len(out.vec) = dim
       /\ \A i \in 1..dim : out.vec[i] = PosZero

C2_Witness ==
    /\ op = "normalise"
    /\ dim = 4
    /\ AllZero(self)
    /\ out = RetVec(<<PosZero, PosZero, PosZero, PosZero>>)

\* C3: a.cross(b) is the right-hand-rule cross product
\* (a.y*b.z - a.z*b.y, a.z*b.x - a.x*b.z, a.x*b.y - a.y*b.x), and
\* cross([1,2,3],[3,2,1]) = [-4,8,-4].
C3_CrossStandard ==
    op = "cross"
    => /\ out.vec =
            << FSub(FMul(axis(self, 1), axis(other, 2)),
                    FMul(axis(self, 2), axis(other, 1))),
               FSub(FMul(axis(self, 2), axis(other, 0)),
                    FMul(axis(self, 0), axis(other, 2))),
               FSub(FMul(axis(self, 0), axis(other, 1)),
                    FMul(axis(self, 1), axis(other, 0))) >>
       /\ (self = Vec(<<1, 2, 3>>) /\ other = Vec(<<3, 2, 1>>))
          => out.vec = Vec(<<-4, 8, -4>>)

C3_Witness ==
    /\ op = "cross"
    /\ self = Vec(<<1, 2, 3>>)
    /\ other = Vec(<<3, 2, 1>>)
    /\ out.vec = Vec(<<-4, 8, -4>>)

\* C4 as stated: for all a and b, a.cross(b) == -1 * b.cross(a); stated here
\* of the finite a and b alone, where it already fails.
C4_AntiCommutativeAll ==
    (op = "cross" /\ AllFinite(self) /\ AllFinite(other))
    => VecEq(out.vec, f32_mul(Lit(-1), cross(other, self)))

\* C4 amended: whenever no component of a.cross(b) is NaN,
\* a.cross(b) == -1 * b.cross(a).
C4_AntiCommutativeNoNaN ==
    (op = "cross" /\ ~HasNaN(out.vec))
    => VecEq(out.vec, f32_mul(Lit(-1), cross(other, self)))

C4_Witness ==
    /\ op = "cross"
    /\ ~HasNaN(out.vec)
    /\ ~AllZero(out.vec)
    /\ VecEq(out.vec, f32_mul(Lit(-1), cross(other, self)))

\* C5 as stated: normalise() of any non-zero vector returns
\* scale(1.0 / magnitude) of it and the result has magnitude 1.0; stated here
\* of the non-zero vectors of small integers alone, where it already fails.
C5_NormaliseUnitAll ==
    (op = "normalise" /\ ~AllZero(self) /\ AllSmallInts(self))
    => /\ out.vec = scalar_mult(self, FDiv(One, magnitude(self)))
       /\ FEq(magnitude(out.vec), One)

\* C5 amended: normalise() of a vector whose magnitude is not 0.0 returns
\* scale(1.0 / magnitude) of it; normalise([3,4]) is [0.6, 0.8], of magnitude
\* exactly 1.0, while normalise([1,1]) has magnitude 0.99999994.
C5_NormaliseScaled ==
    op = "normalise"
    => /\ FNe(magnitude(self), PosZero)
          => out.vec = scalar_mult(self, FDiv(One, magnitude(self)))
       /\ self = Vec(<<3, 4>>)
          => /\ out.vec = <<SixTenths, EightTenths>>
             /\ magnitude(out.vec) = One
       /\ self = Vec(<<1, 1>>)
          => magnitude(out.vec) = F32(0, Bias - 1, Hidden - 1)

C5_Witness ==
    /\ op = "normalise"
    /\ self = Vec(<<3, 4>>)
    /\ out.vec = <<SixTenths, EightTenths>>

\* C6: v * k and k * v are the same vector, each component being v[i] * k.
C6_ScaleCommutes ==
    /\ op = "mul"
       => /\ out.vec = [i \in 1..dim |-> FMul(self[i], scalar)]
          /\ out.vec = f32_mul(scalar, self)
    /\ op = "f32_mul"
       => /\ out.vec = [i \in 1..dim |-> FMul(self[i], scalar)]
          /\ out.vec = mul(self, scalar)

C6_Witness ==
    /\ op = "f32_mul"
    /\ self = Vec(<<3, 4>>)
    /\ scalar = Lit(2)
    /\ out.vec = Vec(<<6, 8>>)

\* C7 as stated: magnitude(v)^2 == dot(v, v); stated here of the vectors of
\* small integers alone, where it already fails.
C7_MagnitudeSquaredAll ==
    (op = "magnitude" /\ AllSmallInts(self))
    => \A z \in SumZeros : FEq(FMul(out.num, out.num), dot(self, self, z))

\* C7 amended: magnitude(v) is exactly the f32 square root of dot(v, v), the
\* same sum of squared components, and magnitude([3,4]) == 5.0; its square
\* is dot(v, v) only up to the rounding of the root.
C7_MagnitudeIsRootOfDot ==
    op = "magnitude"
    => /\ \A z \in SumZeros : out.num = FSqrt(dot(self, self, z))
       /\ self = Vec(<<3, 4>>) => out.num = Lit(5)

C7_Witness ==
    /\ op = "magnitude"
    /\ self = Vec(<<3, 4>>)
    /\ out.num = Lit(5)

\* C8: every unit-axis constructor of every dimension returns the vector
\* with 1.0 at its axis and 0.0 elsewhere, and the accessor of that axis
\* reads 1.0 from it.
C8_AxisUnit ==
    op = "axis_fn"
    => /\ out.kind = "vec"
       /\ Len(out.vec) = dim
       /\ \A i \in 1..dim :
            out.vec[i] = IF i = index + 1 THEN F32(0, Bias, 0) ELSE PosZero
       /\ axis(out.vec, index) = F32(0, Bias, 0)

\* Vec4::w_axis()
C8_Witness ==
    /\ op = "axis_fn"
    /\ dim = 4
    /\ index = 3
    /\ out.vec = Vec(<<0, 0, 0, 1>>)

\* C9: only cos and sin panic; the scalar operations, dot and cross always
\* return, and a vector divided by zero has every component infinite or NaN.
C9_OnlyCosSinFail ==
    /\ out.kind = "panic" => op \in {"cos", "sin"}
    /\ op \in {"mul", "f32_mul", "add", "f32_add", "sub", "div", "cross"}
       => out.kind = "vec" /\ Len(out.vec) = dim
    /\ op = "dot" => out.kind = "num" /\ out.num \in F32Set
    /\ (op = "div" /\ IsZero(scalar))
       => \A i \in 1..dim : IsInf(out.vec[i]) \/ IsNaN(out.vec[i])

\* [0, 1] / 0.0 = [NaN, inf]
C9_Witness ==
    /\ op = "div"
    /\ scalar = PosZero
    /\ self = Vec(<<0, 1>>)
    /\ out = RetVec(<<NaN, Inf(0)>>)

\* C10 as stated: for all a and b, a.dot(a.cross(b)) == 0 and
\* b.dot(a.cross(b)) == 0; stated here of the a and b with finite components
\* of absolute value below 8 alone, where it already fails.
C10_OrthogonalAll ==
    (op = "cross" /\ AllModest(self) /\ AllModest(other))
    => \A z \in SumZeros :
          /\ FEq(dot(self, out.vec, z), PosZero)
          /\ FEq(dot(other, out.vec, z), PosZero)

\* C10 amended: for a and b with integer components of absolute value at
\* most 128 (every product and sum is then exact), a.dot(a.cross(b)) == 0
\* and b.dot(a.cross(b)) == 0.
C10_OrthogonalExact ==
    (op = "cross" /\ AllSmallInts(self) /\ AllSmallInts(other))
    => \A z \in SumZeros :
          /\ FEq(dot(self, out.vec, z), PosZero)
          /\ FEq(dot(other, out.vec, z), PosZero)

C10_Witness ==
    /\ op = "cross"
    /\ self = Vec(<<1, 2, 3>>)
    /\ other = Vec(<<3, 2, 1>>)
    /\ ~AllZero(out.vec)
    /\ FEq(dot(self, out.vec, PosZero), PosZero)
    /\ FEq(dot(other, out.vec, PosZero), PosZero)

====
